---- MODULE Spec2Model ----
(***************************************************************************)
(* Model of break_reminder.py: the GLib-based Timer class and the          *)
(* BreakReminder scheduler with its three timers, driven by the GLib main  *)
(* loop (timer expiries), the GNOME idle monitor (idle start / idle end)   *)
(* and the notification daemon (dismissal, postpone action, closed signal).*)
(*                                                                         *)
(* Time is the monotonic clock of get_timestamp_ms, in whole units.  All   *)
(* callbacks run on the one main-loop thread, so every handler is a single *)
(* atomic action.  A timeout source is dispatched at its ready time: the   *)
(* clock does not advance past a ready source, but several events ready at *)
(* the same instant are dispatched in any order.  A callback that raises   *)
(* ends the process (the callback wrapper calls sys.exit).  A SIGINT ends   *)
(* the main loop between two callbacks: main closes the notification and   *)
(* returns.  Argument parsing and start-up failures are not modelled.      *)
(*                                                                         *)
(* Spec and LiveSpec are the whole program.  TimerSpec and TimerLiveSpec   *)
(* are one Timer on its own, its methods called in any order and its       *)
(* timeout dispatched at its ready time or later.                          *)
(***************************************************************************)
EXTENDS Integers, FiniteSets, Sequences, TLC

\* ------------------------------------------------------------------ bounds
\* The clock stops at MaxTime (guard of Tick).
MaxTime == 8

\* Command-line durations (already multiplied by ms-per-minute) the model
\* draws its configuration from.
WorkDurations == {2, 3}
BreakDurations == {1, 3}
PostponeDurations == {1, 2}
IdleTimeouts == {1, 2}

\* Python's None for Timer._source and Timer._start_timestamp_ms.
None == -1

\* Closed reason "dismissed by the user": the only one that postpones.
NOTIFY_CLOSED_REASON_DISMISSED == 2

\* The reason the daemon reports for the program's own close() call.
ClosedByCall == NOTIFY_CLOSED_REASON_DISMISSED + 1

Max(a, b) == IF a >= b THEN a ELSE b

VARIABLES
    now,                \* GLib.get_monotonic_time() // 1000
    work_duration,      \* BreakReminder arguments, fixed at construction
    break_duration,
    postpone_duration,
    idle_timeout,
    work_timer,         \* BreakReminder._work_timer
    break_timer,        \* BreakReminder._break_timer
    postpone_timer,     \* BreakReminder._postpone_timer
    visible,            \* the notification is on screen
    closed_pending,     \* reason of a "closed" signal not yet delivered, or None
    away_since,         \* time of the user's last input while inactive, or None
    active_watch,       \* a user-active watch is registered (idle was reported)
    was_running,        \* work_timer_was_running carried by that watch
    crashed,            \* a callback raised: the callback wrapper exited the process
    interrupted,        \* SIGINT ended the main loop: main has returned
    last_event,         \* the handler dispatched last
    \* history of the run, read only by the properties
    fired_in_episode,   \* the break timer expired since the last idle start
    fired_since_due,    \* "none": work timer never expired; else whether the
                        \* break timer expired since the last work-timer expiry
    work_run,           \* time the work timer has run since its last full interval began
    work_rem_at_idle,   \* work timer's remaining time right after the last idle start
    credit_at_idle,     \* break timer's remaining time right before the last idle start
    ever_idle,          \* an idle start has been reported
    user_closed,        \* the user has dismissed or postponed the prompt
    \* a Timer on its own, its methods called in any order (TimerSpec)
    t_timer,            \* the Timer
    t_clock,            \* the monotonic clock
    t_exited,           \* a call raised inside a callback: the process exited
    t_op,               \* the last call: "new", "start", "stop", "expiry", "tick"
    t_reset,            \* the reset argument of the last start
    t_prev,             \* the Timer before the last call
    t_run,              \* the current run: "new", "running", "stopped", "expired"
    t_calls,            \* invocations of the callback since the run started
    t_elapsed,          \* clock units gone by since the run started, until it ended
    t_rem_at_start      \* remaining time when the run started

config == <<work_duration, break_duration, postpone_duration, idle_timeout>>
history == <<fired_in_episode, fired_since_due, work_run, work_rem_at_idle,
             credit_at_idle, ever_idle, user_closed>>
reminder == <<now, config, work_timer, break_timer, postpone_timer, visible,
              closed_pending, away_since, active_watch, was_running, crashed,
              interrupted, last_event, history>>
harness == <<t_timer, t_clock, t_exited, t_op, t_reset, t_prev, t_run, t_calls,
             t_elapsed, t_rem_at_start>>
vars == <<reminder, harness>>

\* A wrapper that logs the exception and lets the main loop go on.
CallbackSwallows(raised) == FALSE

\* The callback decorator: whether the process exits, given whether the wrapped
\* function raised.
Callback(raised) == raised

\* --------------------------------------------------------------- class Timer
\* Timer.__init__
TimerInit(interval_ms) ==
    [interval_ms |-> interval_ms, remaining_ms |-> interval_ms,
     start_timestamp_ms |-> None, source |-> None]

\* Timer.is_running
IsRunning(t) == t.source # None

\* Timer.start raises: the assertion, or GLib.timeout_add refusing an interval
\* that is no unsigned integer.
TimerStartRaises(t, reset) ==
    \/ IsRunning(t)
    \/ (IF reset THEN t.interval_ms ELSE t.remaining_ms) < 0

\* A start that always begins a full interval.
TimerStartAlwaysReset(t, reset, clock) ==
    IF IsRunning(t) THEN t
    ELSE [t EXCEPT !.remaining_ms = t.interval_ms,
                   !.start_timestamp_ms = clock,
                   !.source = IF t.interval_ms >= 0 THEN clock + t.interval_ms ELSE None]

\* Timer.start: the timer after the call.  source holds the ready time of the
\* GLib timeout source.  A failed assertion leaves the timer as it was; a
\* refused interval leaves it reset and stamped but without a source.
TimerStart(t, reset, clock) ==
    IF IsRunning(t) THEN t
    ELSE LET r == IF reset THEN t.interval_ms ELSE t.remaining_ms
         IN [t EXCEPT !.remaining_ms = r,
                      !.start_timestamp_ms = clock,
                      !.source = IF r >= 0 THEN clock + r ELSE None]

\* Timer.stop raises: the assertion.
TimerStopRaises(t) == ~IsRunning(t)

\* A stop that does not clamp the remaining time at 0.
TimerStopNoClamp(t, clock) ==
    IF ~IsRunning(t) THEN t
    ELSE [t EXCEPT !.source = None,
                   !.remaining_ms = t.remaining_ms - (clock - t.start_timestamp_ms)]

\* Timer.stop
TimerStop(t, clock) ==
    IF ~IsRunning(t) THEN t
    ELSE [t EXCEPT !.source = None,
                   !.remaining_ms = Max(t.remaining_ms - (clock - t.start_timestamp_ms), 0)]

\* An expiry that forgets to restore the full interval.
TimerExpiryNoReset(t) == [t EXCEPT !.source = None]

\* An expiry that leaves the source in place (a timeout callback that returns
\* True and is called again).
TimerExpiryKeepsSource(t) == [t EXCEPT !.remaining_ms = t.interval_ms]

\* Timer._on_timeout_expiry, before it calls the callback.
TimerExpiry(t) == [t EXCEPT !.source = None, !.remaining_ms = t.interval_ms]

\* The GLib timeout source of t is ready.
Ready(t) == IsRunning(t) /\ t.source <= now

\* ------------------------------------------------------- class BreakReminder
\* A break timer of the whole break duration.
BreakIntervalWhole(break_ms, idle_ms) == break_ms

\* The interval BreakReminder.__init__ gives the break timer.
BreakInterval(break_ms, idle_ms) == break_ms - idle_ms

\* An expiry handler that does not show the notification.
ShowNothing(shown) == shown

\* self._notification.show() of _on_work_timer_expired and _on_postpone_expired.
NotificationShow(shown) == TRUE

\* A close() that leaves the notification on screen.
CloseNothing(shown) == shown

\* self._notification.close() of _on_break_timer_expired and
\* _on_notification_postponed.
NotificationClose(shown) == FALSE

\* BreakReminder.close_notification: close() on the notification.
CloseNotification(shown) == NotificationClose(shown)

\* _on_break_timer_expired forgetting the postpone timer.
OnBreakTimerExpiredKeepPostpone(p, clock) == [postpone |-> p, raised |-> FALSE]

\* _on_break_timer_expired stopping the postpone timer without asking whether
\* it is running.
OnBreakTimerExpiredNoGuard(p, clock) ==
    [postpone |-> TimerStop(p, clock), raised |-> TimerStopRaises(p)]

\* _on_break_timer_expired: the postpone timer after it.
OnBreakTimerExpired(p, clock) ==
    [postpone |-> IF IsRunning(p) THEN TimerStop(p, clock) ELSE p,
     raised |-> FALSE]

\* _on_idle_start keeping the break timer's remaining time.
OnIdleStartNoReset(w, b, clock) ==
    LET was == IsRunning(w)
        raises == TimerStartRaises(b, FALSE)
    IN [work |-> IF was THEN TimerStop(w, clock) ELSE w,
        brk |-> TimerStart(b, FALSE, clock),
        was |-> was, raised |-> raises]

\* _on_idle_start handing the watch True instead of work_timer_was_running.
OnIdleStartWasTrue(w, b, clock) ==
    [work |-> IF IsRunning(w) THEN TimerStop(w, clock) ELSE w,
     brk |-> TimerStart(b, TRUE, clock),
     was |-> TRUE, raised |-> TimerStartRaises(b, TRUE)]

\* _on_idle_start leaving the work timer running.
OnIdleStartKeepWork(w, b, clock) ==
    [work |-> w, brk |-> TimerStart(b, TRUE, clock),
     was |-> IsRunning(w), raised |-> TimerStartRaises(b, TRUE)]

\* _on_idle_start: the timers, the watch's argument, and whether it raised.
OnIdleStart(w, b, clock) ==
    LET was == IsRunning(w)
        raises == TimerStartRaises(b, TRUE)
    IN [work |-> IF was THEN TimerStop(w, clock) ELSE w,
        brk |-> TimerStart(b, TRUE, clock),
        was |-> was, raised |-> raises]

\* _on_idle_end restarting the work timer whatever the watch's argument.
OnIdleEndAlwaysWork(w, b, was, clock) ==
    IF IsRunning(b)
    THEN [work |-> TimerStart(w, FALSE, clock), brk |-> TimerStop(b, clock),
          raised |-> TimerStartRaises(w, FALSE)]
    ELSE [work |-> TimerStart(w, TRUE, clock), brk |-> b,
          raised |-> TimerStartRaises(w, TRUE)]

\* _on_idle_end resuming the work timer without reset in both branches.
OnIdleEndNoReset(w, b, was, clock) ==
    IF IsRunning(b)
    THEN [work |-> IF was THEN TimerStart(w, FALSE, clock) ELSE w,
          brk |-> TimerStop(b, clock),
          raised |-> was /\ TimerStartRaises(w, FALSE)]
    ELSE [work |-> TimerStart(w, FALSE, clock), brk |-> b,
          raised |-> TimerStartRaises(w, FALSE)]

\* _on_idle_end leaving the break timer running.
OnIdleEndKeepBreak(w, b, was, clock) ==
    IF IsRunning(b)
    THEN [work |-> IF was THEN TimerStart(w, FALSE, clock) ELSE w,
          brk |-> b,
          raised |-> was /\ TimerStartRaises(w, FALSE)]
    ELSE [work |-> TimerStart(w, TRUE, clock), brk |-> b,
          raised |-> TimerStartRaises(w, TRUE)]

\* _on_idle_end: the timers after it, and whether it raised.
OnIdleEnd(w, b, was, clock) ==
    IF IsRunning(b)
    THEN [work |-> IF was THEN TimerStart(w, FALSE, clock) ELSE w,
          brk |-> TimerStop(b, clock),
          raised |-> was /\ TimerStartRaises(w, FALSE)]
    ELSE [work |-> TimerStart(w, TRUE, clock), brk |-> b,
          raised |-> TimerStartRaises(w, TRUE)]

\* _postpone_break: the postpone timer after it, and whether it raised.
PostponeBreak(p, clock) ==
    [postpone |-> TimerStart(p, TRUE, clock), raised |-> TimerStartRaises(p, TRUE)]

\* _on_notification_closed postponing whatever the reason.
OnNotificationClosedAnyReason(reason, p, clock) == PostponeBreak(p, clock)

\* _on_notification_closed with the test of the reason inverted.
OnNotificationClosedInverted(reason, p, clock) ==
    IF reason = NOTIFY_CLOSED_REASON_DISMISSED
    THEN [postpone |-> p, raised |-> FALSE]
    ELSE PostponeBreak(p, clock)

\* _on_notification_closed: the postpone timer after it, and whether it raised.
OnNotificationClosed(reason, p, clock) ==
    IF reason # NOTIFY_CLOSED_REASON_DISMISSED
    THEN [postpone |-> p, raised |-> FALSE]
    ELSE PostponeBreak(p, clock)

\* _on_notification_postponed, after its close(): the same postponement.
OnNotificationPostponed(p, clock) == PostponeBreak(p, clock)

\* ---------------------------------------------------------------------- Init
\* BreakReminder.__init__ at clock 0: the three timers are built, the work
\* timer is started, the idle watch is registered; the user is at the desk.
BreakReminderInit ==
    /\ now = 0
    /\ work_duration \in WorkDurations
    /\ break_duration \in BreakDurations
    /\ postpone_duration \in PostponeDurations
    /\ idle_timeout \in IdleTimeouts
    /\ work_timer = TimerStart(TimerInit(work_duration), FALSE, 0)
    /\ break_timer = TimerInit(BreakInterval(break_duration, idle_timeout))
    /\ postpone_timer = TimerInit(postpone_duration)
    /\ visible = FALSE
    /\ closed_pending = None
    /\ away_since = None
    /\ active_watch = FALSE
    /\ was_running = FALSE
    /\ crashed = FALSE
    /\ interrupted = FALSE
    /\ last_event = "init"
    /\ fired_in_episode = FALSE
    /\ fired_since_due = "none"
    /\ work_run = 0
    /\ work_rem_at_idle = None
    /\ credit_at_idle = None
    /\ ever_idle = FALSE
    /\ user_closed = FALSE

\* The Timer on its own, newly built with the given interval.
TimerNew(interval_ms) ==
    /\ t_timer = TimerInit(interval_ms)
    /\ t_clock = 0
    /\ t_exited = FALSE
    /\ t_op = "new"
    /\ t_reset = FALSE
    /\ t_prev = TimerInit(interval_ms)
    /\ t_run = "new"
    /\ t_calls = 0
    /\ t_elapsed = 0
    /\ t_rem_at_start = interval_ms

\* The program after construction; the lone Timer is not used.
Init == BreakReminderInit /\ TimerNew(0)

\* The idle watch is due: the user has been inactive for idle_timeout and
\* this idle episode has not been reported yet.
IdleDue ==
    /\ away_since # None
    /\ ~active_watch
    /\ now - away_since >= idle_timeout

\* ------------------------------------------------------------------- actions
\* The clock advances by one unit, unless an event is ready to be dispatched.
Tick ==
    /\ ~crashed /\ ~interrupted
    /\ now < MaxTime
    /\ ~Ready(work_timer) /\ ~Ready(break_timer) /\ ~Ready(postpone_timer)
    /\ ~IdleDue
    /\ closed_pending = None
    /\ now' = now + 1
    /\ work_run' = IF IsRunning(work_timer) THEN work_run + 1 ELSE work_run
    /\ last_event' = "tick"
    /\ UNCHANGED <<interrupted, config, harness, work_timer, break_timer, postpone_timer, visible,
                   closed_pending, away_since, active_watch, was_running, crashed,
                   fired_in_episode, fired_since_due, work_rem_at_idle,
                   credit_at_idle, ever_idle, user_closed>>

\* The user stops giving input.
UserLeaves ==
    /\ ~crashed /\ ~interrupted
    /\ away_since = None
    /\ away_since' = now
    /\ UNCHANGED <<interrupted, now, config, harness, work_timer, break_timer, postpone_timer, visible,
                   closed_pending, active_watch, was_running, crashed, last_event,
                   history>>

\* The user gives input again before the idle watch fired: no callback.
UserReturnsUnnoticed ==
    /\ ~crashed /\ ~interrupted
    /\ away_since # None
    /\ ~active_watch
    /\ away_since' = None
    /\ UNCHANGED <<interrupted, now, config, harness, work_timer, break_timer, postpone_timer, visible,
                   closed_pending, active_watch, was_running, crashed, last_event,
                   history>>

\* Timer._on_timeout_expiry of the work timer, then _on_work_timer_expired.
WorkTimerExpired ==
    /\ ~crashed /\ ~interrupted
    /\ Ready(work_timer)
    /\ work_timer' = TimerExpiry(work_timer)
    /\ visible' = NotificationShow(visible)
    /\ fired_since_due' = "no"
    /\ last_event' = "work_expired"
    /\ UNCHANGED <<interrupted, now, config, harness, break_timer, postpone_timer, closed_pending,
                   away_since, active_watch, was_running, crashed,
                   fired_in_episode, work_run, work_rem_at_idle, credit_at_idle,
                   ever_idle, user_closed>>

\* Timer._on_timeout_expiry of the break timer, then _on_break_timer_expired:
\* the notification is closed (the daemon answers with a "closed" signal when
\* it was on screen) and a running postpone timer is stopped.
BreakTimerExpired ==
    /\ ~crashed /\ ~interrupted
    /\ Ready(break_timer)
    /\ LET r == OnBreakTimerExpired(postpone_timer, now)
       IN /\ postpone_timer' = r.postpone
          /\ crashed' = Callback(r.raised)
    /\ break_timer' = TimerExpiry(break_timer)
    /\ visible' = NotificationClose(visible)
    /\ closed_pending' = IF visible THEN ClosedByCall ELSE closed_pending
    /\ fired_in_episode' = TRUE
    /\ fired_since_due' = IF fired_since_due = "none" THEN "none" ELSE "yes"
    /\ last_event' = "break_expired"
    /\ UNCHANGED <<interrupted, now, config, harness, work_timer, away_since, active_watch, was_running,
                   work_run, work_rem_at_idle, credit_at_idle, ever_idle,
                   user_closed>>

\* Timer._on_timeout_expiry of the postpone timer, then _on_postpone_expired.
PostponeTimerExpired ==
    /\ ~crashed /\ ~interrupted
    /\ Ready(postpone_timer)
    /\ postpone_timer' = TimerExpiry(postpone_timer)
    /\ visible' = NotificationShow(visible)
    /\ last_event' = "postpone_expired"
    /\ UNCHANGED <<interrupted, now, config, harness, work_timer, break_timer, closed_pending,
                   away_since, active_watch, was_running, crashed, history>>

\* The idle monitor reports idle_timeout of inactivity: _on_idle_start.
IdleStart ==
    /\ ~crashed /\ ~interrupted
    /\ IdleDue
    /\ LET r == OnIdleStart(work_timer, break_timer, now)
       IN /\ work_timer' = r.work
          /\ break_timer' = r.brk
          /\ crashed' = Callback(r.raised)
          /\ active_watch' = ~r.raised
          /\ was_running' = r.was
          /\ work_rem_at_idle' = r.work.remaining_ms
    /\ credit_at_idle' = break_timer.remaining_ms
    /\ fired_in_episode' = FALSE
    /\ ever_idle' = TRUE
    /\ last_event' = "idle_start"
    /\ UNCHANGED <<interrupted, now, config, harness, postpone_timer, visible, closed_pending,
                   away_since, fired_since_due, work_run, user_closed>>

\* The user gives input again after idle was reported: the one-shot
\* user-active watch fires, _on_idle_end.
IdleEnd ==
    /\ ~crashed /\ ~interrupted
    /\ away_since # None
    /\ active_watch
    /\ LET r == OnIdleEnd(work_timer, break_timer, was_running, now)
       IN /\ work_timer' = r.work
          /\ break_timer' = r.brk
          /\ crashed' = Callback(r.raised)
          /\ work_run' = IF ~IsRunning(break_timer) /\ ~r.raised THEN 0 ELSE work_run
    /\ away_since' = None
    /\ active_watch' = FALSE
    /\ last_event' = "idle_end"
    /\ UNCHANGED <<interrupted, now, config, harness, postpone_timer, visible, closed_pending,
                   was_running, fired_in_episode, fired_since_due,
                   work_rem_at_idle, credit_at_idle, ever_idle, user_closed>>

\* The user dismisses the notification: the daemon closes it and
\* _on_notification_closed runs with reason "dismissed".
NotificationDismissed ==
    /\ ~crashed /\ ~interrupted
    /\ visible
    /\ LET r == OnNotificationClosed(NOTIFY_CLOSED_REASON_DISMISSED, postpone_timer, now)
       IN /\ postpone_timer' = r.postpone
          /\ crashed' = Callback(r.raised)
    /\ visible' = FALSE
    /\ user_closed' = TRUE
    /\ last_event' = "dismissed"
    /\ UNCHANGED <<interrupted, now, config, harness, work_timer, break_timer, closed_pending,
                   away_since, active_watch, was_running, fired_in_episode,
                   fired_since_due, work_run, work_rem_at_idle, credit_at_idle,
                   ever_idle>>

\* The user invokes the "postpone" action: _on_notification_postponed closes
\* the (resident) notification and postpones.
NotificationPostponed ==
    /\ ~crashed /\ ~interrupted
    /\ visible
    /\ LET r == OnNotificationPostponed(postpone_timer, now)
       IN /\ postpone_timer' = r.postpone
          /\ crashed' = Callback(r.raised)
    /\ visible' = NotificationClose(visible)
    /\ closed_pending' = ClosedByCall
    /\ user_closed' = TRUE
    /\ last_event' = "postponed"
    /\ UNCHANGED <<interrupted, now, config, harness, work_timer, break_timer, away_since, active_watch,
                   was_running, fired_in_episode, fired_since_due, work_run,
                   work_rem_at_idle, credit_at_idle, ever_idle>>

\* The "closed" signal answering the program's own close():
\* _on_notification_closed returns at once, the reason is not "dismissed".
NotificationClosedByCall ==
    /\ ~crashed /\ ~interrupted
    /\ closed_pending # None
    /\ LET r == OnNotificationClosed(closed_pending, postpone_timer, now)
       IN /\ postpone_timer' = r.postpone
          /\ crashed' = Callback(r.raised)
    /\ closed_pending' = None
    /\ last_event' = "closed"
    /\ UNCHANGED <<interrupted, now, config, harness, work_timer, break_timer, visible, away_since,
                   active_watch, was_running, history>>

\* SIGINT ends GLib.MainLoop().run() between two callbacks; main catches the
\* KeyboardInterrupt, calls close_notification and returns.  The "closed"
\* signal of that close() is never delivered: no main loop is running.
Sigint ==
    /\ ~crashed /\ ~interrupted
    /\ visible' = CloseNotification(visible)
    /\ closed_pending' = IF visible THEN ClosedByCall ELSE closed_pending
    /\ interrupted' = TRUE
    /\ last_event' = "sigint"
    /\ UNCHANGED <<now, config, harness, work_timer, break_timer, postpone_timer,
                   away_since, active_watch, was_running, crashed, history>>

Next ==
    \/ Tick
    \/ UserLeaves
    \/ UserReturnsUnnoticed
    \/ WorkTimerExpired
    \/ BreakTimerExpired
    \/ PostponeTimerExpired
    \/ IdleStart
    \/ IdleEnd
    \/ NotificationDismissed
    \/ NotificationPostponed
    \/ NotificationClosedByCall
    \/ Sigint

Spec == Init /\ [][Next]_vars

\* The main loop dispatches every ready source, and the clock runs on.
LiveSpec ==
    /\ Spec
    /\ WF_vars(Tick)
    /\ WF_vars(WorkTimerExpired)
    /\ WF_vars(BreakTimerExpired)
    /\ WF_vars(PostponeTimerExpired)
    /\ WF_vars(IdleStart)
    /\ WF_vars(NotificationClosedByCall)

\* --------------------------------------------------- a Timer on its own
\* Upper end of the clock of TimerSpec (guard of ClockTick).
MaxClock == 4

\* Intervals a Timer is built with; BreakReminder.__init__ can pass a
\* negative one.
TimerIntervals == {-1, 0, 1, 2, 3}

\* A callback calls timer.start(reset).
CallStart(reset) ==
    /\ ~t_exited
    /\ LET raised == TimerStartRaises(t_timer, reset)
           t == TimerStart(t_timer, reset, t_clock)
       IN /\ t_timer' = t
          /\ t_exited' = Callback(raised)
          /\ t_run' = IF raised THEN t_run ELSE "running"
          /\ t_calls' = IF raised THEN t_calls ELSE 0
          /\ t_elapsed' = IF raised THEN t_elapsed ELSE 0
          /\ t_rem_at_start' = IF raised THEN t_rem_at_start ELSE t.remaining_ms
    /\ t_prev' = t_timer
    /\ t_op' = "start"
    /\ t_reset' = reset
    /\ UNCHANGED <<t_clock, reminder>>

\* A callback calls timer.stop().
CallStop ==
    /\ ~t_exited
    /\ LET raised == TimerStopRaises(t_timer)
       IN /\ t_timer' = TimerStop(t_timer, t_clock)
          /\ t_exited' = Callback(raised)
          /\ t_run' = IF raised THEN t_run ELSE "stopped"
    /\ t_prev' = t_timer
    /\ t_op' = "stop"
    /\ UNCHANGED <<t_clock, t_reset, t_calls, t_elapsed, t_rem_at_start, reminder>>

\* The main loop dispatches the timeout source, at its ready time or later:
\* Timer._on_timeout_expiry, which invokes the callback.
TimeoutExpiry ==
    /\ ~t_exited
    /\ IsRunning(t_timer)
    /\ t_timer.source <= t_clock
    /\ t_timer' = TimerExpiry(t_timer)
    /\ t_calls' = t_calls + 1
    /\ t_run' = "expired"
    /\ t_prev' = t_timer
    /\ t_op' = "expiry"
    /\ UNCHANGED <<t_clock, t_exited, t_reset, t_elapsed, t_rem_at_start, reminder>>

\* The clock advances by one unit; a ready source may be dispatched late.
ClockTick ==
    /\ ~t_exited
    /\ t_clock < MaxClock
    /\ t_clock' = t_clock + 1
    /\ t_elapsed' = IF IsRunning(t_timer) THEN t_elapsed + 1 ELSE t_elapsed
    /\ t_op' = "tick"
    /\ UNCHANGED <<t_timer, t_exited, t_reset, t_prev, t_run, t_calls,
                   t_rem_at_start, reminder>>

TimerNext ==
    \/ \E reset \in BOOLEAN : CallStart(reset)
    \/ CallStop
    \/ TimeoutExpiry
    \/ ClockTick

\* A Timer of any interval; the BreakReminder beside it takes no step.
TimerSpecInit ==
    /\ BreakReminderInit
    /\ work_duration = 2 /\ break_duration = 3
    /\ postpone_duration = 1 /\ idle_timeout = 1
    /\ \E i \in TimerIntervals : TimerNew(i)

TimerSpec == TimerSpecInit /\ [][TimerNext]_vars

\* The main loop dispatches a ready timeout source, and the clock runs on.
TimerLiveSpec ==
    /\ TimerSpec
    /\ WF_vars(TimeoutExpiry)
    /\ WF_vars(ClockTick)

\* ------------------------------------------------------------------- claims
\* C1: once the work timer has expired, every later start of the work timer
\* is preceded by a break-timer expiry that came after that work-timer expiry.
C1_WorkRestartNeedsBreak ==
    [][(~IsRunning(work_timer) /\ IsRunning(work_timer'))
          => fired_since_due # "no"]_vars

\* The work timer was restarted after a due break was satisfied by idling.
C1_Witness ==
    /\ last_event = "idle_end"
    /\ fired_since_due = "yes"
    /\ IsRunning(work_timer)

\* The user has just dismissed or postponed the prompt, and the postpone
\* timer's ready time lies within the modelled span of the clock.
JustPostponed ==
    /\ last_event \in {"dismissed", "postponed"}
    /\ postpone_timer.source <= MaxTime

\* A reported idle episode has lasted the whole break duration.
IdleLongEnough ==
    /\ away_since # None
    /\ now - away_since >= idle_timeout
    /\ now - away_since >= break_duration

\* C2: whenever the prompt is dismissed or postponed, it becomes visible
\* again unless a reported idle episode lasts the whole break duration; and
\* where the break timer has an interval to run (break_duration >=
\* idle_timeout), it becomes visible again unless the break timer fires.
\* Both are said of a main loop that keeps running: a SIGINT ends the nag
\* cycle with the process.
C2_PromptReappears ==
    /\ JustPostponed ~> (visible \/ IdleLongEnough \/ interrupted)
    /\ (JustPostponed /\ break_duration >= idle_timeout)
          ~> (visible \/ last_event = "break_expired" \/ interrupted)

\* The prompt is back on screen after the postpone timer ran out a second time.
C2_Witness ==
    /\ last_event = "postpone_expired"
    /\ visible
    /\ user_closed
    /\ ~interrupted
    /\ now >= work_duration + 2 * postpone_duration

\* C3: at the idle end of an episode in which the break timer fired, the work
\* timer is running with the full work duration remaining, whether or not it
\* was running at idle start.
C3_FullCreditFreshWork ==
    (last_event = "idle_end" /\ fired_in_episode)
        => /\ IsRunning(work_timer)
           /\ work_timer.remaining_ms = work_duration
           /\ work_timer.start_timestamp_ms = now
           /\ work_timer.source = now + work_duration

\* Full credit was earned in an episode that interrupted a partly used work
\* interval, and the work timer runs a full interval again.
C3_Witness ==
    /\ last_event = "idle_end"
    /\ fired_in_episode
    /\ was_running
    /\ work_rem_at_idle < work_duration
    /\ work_timer.remaining_ms = work_duration

\* C4: at the idle end of an episode that began while the work timer was
\* running and ended before the break timer fired, the work timer is running
\* with exactly the remaining time it had at idle start, the work duration
\* minus the time it ran; the length of the episode does not enter.
C4_BriefIdleResumesWork ==
    (last_event = "idle_end" /\ ~fired_in_episode /\ was_running)
        => /\ IsRunning(work_timer)
           /\ work_timer.remaining_ms = work_rem_at_idle
           /\ work_timer.remaining_ms = work_duration - work_run
           /\ work_timer.source = now + work_timer.remaining_ms

\* Work resumed part-way through its interval after an episode that lasted
\* some time.
C4_Witness ==
    /\ last_event = "idle_end"
    /\ ~fired_in_episode
    /\ was_running
    /\ break_timer.start_timestamp_ms < now
    /\ 0 < work_timer.remaining_ms
    /\ work_timer.remaining_ms < work_duration
    /\ IsRunning(work_timer)

\* C5: at the idle end of an episode that began while the work timer was not
\* running and ended before the break timer fired, the work timer is still
\* not running and the break is still due: the prompt is visible or the
\* postpone timer is running.
C5_DueBreakStaysDue ==
    (last_event = "idle_end" /\ ~fired_in_episode /\ ~was_running)
        => /\ ~IsRunning(work_timer)
           /\ (visible \/ IsRunning(postpone_timer))

\* A short idle episode interrupted a visible prompt.
C5_Witness ==
    /\ last_event = "idle_end"
    /\ ~fired_in_episode
    /\ ~was_running
    /\ visible
    /\ ~IsRunning(work_timer)

\* C6: as long as no idle start has occurred and the user has not dismissed
\* or postponed, the prompt is visible exactly from the moment the work timer
\* has run for the work duration, and stays visible: no timer or handler of
\* the running main loop hides it (main closes it when a SIGINT ends the loop).
C6_NoIdlingPromptShown ==
    (~ever_idle /\ ~user_closed /\ ~interrupted)
        => /\ visible <=> ~IsRunning(work_timer)
           /\ visible => (now >= work_duration /\ work_run = work_duration)
           /\ ~visible => (now <= work_duration /\ work_run = now)

\* The prompt is still on screen some time after the work timer expired.
C6_Witness ==
    /\ ~ever_idle
    /\ ~user_closed
    /\ ~interrupted
    /\ visible
    /\ now > work_duration

\* C7 as stated: at idle start the break timer continues from the remaining
\* time the previous idle episode left it with.
C7_CreditContinues ==
    last_event = "idle_start" => break_timer.remaining_ms = credit_at_idle

\* C7 amended: an idle end before the break timer fired stops it with the
\* remaining time it has left of this episode, but the next idle start begins
\* the break timer's full interval again.
C7_CreditKeptThenReset ==
    /\ (last_event = "idle_end" /\ ~fired_in_episode)
          => /\ ~IsRunning(break_timer)
             /\ break_timer.remaining_ms =
                   (break_duration - idle_timeout) - (now - break_timer.start_timestamp_ms)
    /\ last_event = "idle_start"
          => break_timer.remaining_ms = break_duration - idle_timeout

\* A second idle episode begins the full interval although the first one had
\* used up part of it.
C7_Witness ==
    /\ last_event = "idle_start"
    /\ 0 <= credit_at_idle
    /\ credit_at_idle < break_timer.remaining_ms
    /\ IsRunning(break_timer)

\* C8: with break_duration >= idle_timeout, every idle start starts the break
\* timer with the interval break_duration - idle_timeout, and the break timer
\* fires exactly when the user has been inactive for break_duration.
C8_BreakFiresAtBreakDuration ==
    break_duration >= idle_timeout
        => /\ last_event = "idle_start"
                 => /\ IsRunning(break_timer)
                    /\ break_timer.remaining_ms = break_duration - idle_timeout
                    /\ now - away_since = idle_timeout
                    /\ break_timer.source = away_since + break_duration
           /\ last_event = "break_expired"
                 => /\ away_since # None
                    /\ now - away_since = break_duration

\* The break timer fired after a positive run.
C8_Witness ==
    /\ last_event = "break_expired"
    /\ break_duration > idle_timeout
    /\ now - away_since = break_duration

\* C9 as stated: the break timer's interval is
\* max(break_duration - idle_timeout, 0), and with idle_timeout >=
\* break_duration the break timer is ready to fire at idle start.
C9_IntervalClamped ==
    /\ break_timer.interval_ms = Max(break_duration - idle_timeout, 0)
    /\ (idle_timeout >= break_duration /\ last_event = "idle_start")
          => Ready(break_timer)

\* C10 as stated: every timer's remaining time lies between 0 and its interval.
C10_TimerBounds ==
    \A t \in {work_timer, break_timer, postpone_timer} :
        0 <= t.remaining_ms /\ t.remaining_ms <= t.interval_ms

\* The idle monitor's last report was an idle start: the user is idle until
\* the matching idle end.
IsIdle == active_watch \/ last_event = "idle_start"

\* C14: a "closed" signal with a reason other than "dismissed" leaves the
\* postpone timer as it is; the postpone timer is started only by a dismissal
\* or by the postpone action, and each of them starts a full postpone interval.
C14_OnlyUserClosurePostpones ==
    /\ [][/\ last_event' = "closed" => postpone_timer' = postpone_timer
          /\ (\/ ~IsRunning(postpone_timer) /\ IsRunning(postpone_timer')
              \/ postpone_timer'.start_timestamp_ms # postpone_timer.start_timestamp_ms)
                => last_event' \in {"dismissed", "postponed"}]_vars
    /\ [](last_event \in {"dismissed", "postponed"}
            => /\ IsRunning(postpone_timer)
               /\ postpone_timer.start_timestamp_ms = now
               /\ postpone_timer.remaining_ms = postpone_duration
               /\ postpone_timer.source = now + postpone_duration)

\* The "closed" signal of the close() at a break-timer expiry was delivered
\* and the postpone timer stayed stopped.
C14_Witness ==
    /\ last_event = "closed"
    /\ fired_in_episode
    /\ active_watch
    /\ user_closed
    /\ ~IsRunning(postpone_timer)

\* C15: in every reachable state, whichever handler the main loop can dispatch
\* next runs without a failed assertion: none calls start on a running timer
\* or stop on a timer that is not running.  (The only callback that raises is
\* _on_idle_start with a negative break-timer interval, refused by
\* GLib.timeout_add, not by an assertion.)
C15_NoContractViolation ==
    ~crashed =>
      /\ Ready(break_timer) => ~OnBreakTimerExpired(postpone_timer, now).raised
      /\ IdleDue => (OnIdleStart(work_timer, break_timer, now).raised
                        => ~IsRunning(break_timer) /\ break_timer.interval_ms < 0)
      /\ (away_since # None /\ active_watch)
            => ~OnIdleEnd(work_timer, break_timer, was_running, now).raised
      /\ visible
            => /\ ~OnNotificationClosed(NOTIFY_CLOSED_REASON_DISMISSED,
                                        postpone_timer, now).raised
               /\ ~OnNotificationPostponed(postpone_timer, now).raised
      /\ closed_pending # None
            => ~OnNotificationClosed(closed_pending, postpone_timer, now).raised

\* The break timer is about to expire while the postpone timer is running and
\* the idle end that follows will find the work timer stopped.
C15_Witness ==
    /\ ~crashed
    /\ Ready(break_timer)
    /\ IsRunning(postpone_timer)
    /\ active_watch
    /\ was_running = FALSE

\* C16: from the break timer's expiry until the idle end of that episode the
\* prompt is not visible, the postpone timer is not running and the work timer
\* is stopped with the remaining time it had at idle start.
C16_BreakExpiryFrame ==
    (fired_in_episode /\ IsIdle)
        => /\ ~visible
           /\ ~IsRunning(postpone_timer)
           /\ ~IsRunning(work_timer)
           /\ work_timer.remaining_ms = work_rem_at_idle
           /\ ~IsRunning(break_timer)
           /\ break_timer.remaining_ms = break_timer.interval_ms

\* The break timer has just expired on a visible prompt of a due break: the
\* prompt is closed and its "closed" signal is on the way.
C16_Witness ==
    /\ last_event = "break_expired"
    /\ closed_pending = ClosedByCall
    /\ ~visible
    /\ was_running = FALSE
    /\ IsIdle

\* C17: the break timer is running only while the user is idle, and it
\* expires only then.
C17_BreakTimerOnlyWhileIdle ==
    /\ IsRunning(break_timer) => (IsIdle /\ away_since # None)
    /\ last_event = "break_expired" => (IsIdle /\ away_since # None)

\* The break timer has been running for some time of an idle episode.
C17_Witness ==
    /\ IsRunning(break_timer)
    /\ IsIdle
    /\ break_timer.start_timestamp_ms < now

\* C18: whenever the postpone timer is running, the prompt is not visible and
\* the work timer is not running; so the postpone timer expires onto a hidden
\* prompt, outside a work interval.
C18_PostponeMeansHiddenAndDue ==
    /\ IsRunning(postpone_timer) => (~visible /\ ~IsRunning(work_timer))
    /\ last_event = "postpone_expired" => ~IsRunning(work_timer)

\* The postpone timer is about to expire.
C18_Witness ==
    /\ Ready(postpone_timer)
    /\ ~visible
    /\ ~IsRunning(work_timer)

\* C19: while the user is idle the work timer is not running and keeps the
\* remaining time it had at idle start; it never expires during an idle
\* episode.
C19_WorkTimerStoppedWhileIdle ==
    /\ IsIdle => /\ ~IsRunning(work_timer)
                 /\ (~fired_in_episode => work_timer.remaining_ms = work_rem_at_idle)
    /\ last_event = "work_expired" => ~IsIdle

\* The user has been idle for some time with a work interval paused part-way.
C19_Witness ==
    /\ IsIdle
    /\ was_running
    /\ break_timer.start_timestamp_ms < now
    /\ work_timer.remaining_ms < work_duration
    /\ 0 < work_timer.remaining_ms

\* C20: in every reachable state of the running main loop in which the user
\* is not idle, exactly one of these holds: the work timer is running, the
\* prompt is visible, the postpone timer is running.  (After a SIGINT main
\* has closed the prompt and returned: there is no scheduler left.)
C20_ExactlyOnePending ==
    (~IsIdle /\ ~interrupted) =>
        Cardinality({k \in {"work", "prompt", "postpone"} :
                        \/ k = "work" /\ IsRunning(work_timer)
                        \/ k = "prompt" /\ visible
                        \/ k = "postpone" /\ IsRunning(postpone_timer)}) = 1

\* The user is back after a short idle episode and the postpone timer is the
\* one thing pending.
C20_Witness ==
    /\ ~IsIdle
    /\ ~interrupted
    /\ last_event = "idle_end"
    /\ IsRunning(postpone_timer)
    /\ ~visible
    /\ ~IsRunning(work_timer)

\* A run has begun whose ready time lies within the modelled span of the clock.
RunWithinSpan == t_run = "running" /\ t_timer.source <= MaxClock

\* C11: a run of a timer that is not stopped invokes the callback exactly
\* once, not before its remaining time has elapsed, and from then on the timer
\* is not running and its remaining time is the full interval; a run that was
\* stopped invokes no callback.
C11_NaturalExpiry ==
    /\ [](/\ t_run = "running" => (t_calls = 0 /\ IsRunning(t_timer))
          /\ t_run = "stopped" => (t_calls = 0 /\ ~IsRunning(t_timer))
          /\ t_run = "expired" => /\ t_calls = 1
                                  /\ ~IsRunning(t_timer)
                                  /\ t_timer.remaining_ms = t_timer.interval_ms
                                  /\ t_elapsed >= t_rem_at_start)
    /\ RunWithinSpan ~> (t_run # "running" \/ t_exited)

\* A resumed run has expired after running for some time.
C11_Witness ==
    /\ t_run = "expired"
    /\ t_op = "expiry"
    /\ t_calls = 1
    /\ 0 < t_rem_at_start
    /\ t_rem_at_start < t_timer.interval_ms

\* C12: stop leaves remaining = max(remaining at start - elapsed, 0), and it
\* stays so while the timer is stopped; start without reset resumes with
\* exactly that remaining time, start with reset with the full interval; the
\* remaining time does not change while the timer runs.
C12_PauseResume ==
    /\ t_run = "stopped"
          => t_timer.remaining_ms = Max(t_rem_at_start - t_elapsed, 0)
    /\ t_run = "running"
          => /\ t_timer.remaining_ms = t_rem_at_start
             /\ t_clock - t_timer.start_timestamp_ms = t_elapsed
             /\ t_timer.source = t_timer.start_timestamp_ms + t_rem_at_start
    /\ (t_op = "start" /\ ~t_exited)
          => t_timer.remaining_ms =
                IF t_reset THEN t_timer.interval_ms ELSE t_prev.remaining_ms
    /\ t_run = "new" => t_timer.remaining_ms = t_timer.interval_ms

\* A timer stopped part-way has been resumed without reset.
C12_Witness ==
    /\ t_op = "start"
    /\ ~t_reset
    /\ ~t_exited
    /\ 0 < t_timer.remaining_ms
    /\ t_timer.remaining_ms < t_timer.interval_ms
    /\ IsRunning(t_timer)

\* C13: start on a running timer and stop on a timer that is not running
\* leave every field of the timer as it was and end the process: no further
\* step follows.
C13_ContractViolationFatal ==
    /\ []((t_op = "start" /\ IsRunning(t_prev)) => (t_exited /\ t_timer = t_prev))
    /\ []((t_op = "stop" /\ ~IsRunning(t_prev)) => (t_exited /\ t_timer = t_prev))
    /\ [][t_exited => UNCHANGED harness]_vars

\* start was called on a running timer part-way through its run.
C13_Witness ==
    /\ t_exited
    /\ t_op = "start"
    /\ IsRunning(t_prev)
    /\ t_timer = t_prev
    /\ t_elapsed > 0

====
